---- MODULE Spec2Model ----
(***************************************************************************)
(* A model of the fetch-with-cache core of hunterjsb/scout:                *)
(*   scrapers/cache.py            Cache backends, create_cache_key,        *)
(*                                CachedMethod                            *)
(*   scrapers/scraper.py          Scraper cache helpers                    *)
(*   scrapers/source.py           SourceAdapter                            *)
(*   scrapers/twitter_scraper.py  TwitterScraper                           *)
(*                                                                         *)
(* Python's None is the string "None".  An Optional[int] is a sequence of  *)
(* length 0 (None) or 1 (the integer).  A dict is a function whose DOMAIN  *)
(* is the set of keys present.  datetime.now() reads the variable now, and *)
(* one unit of now is one second.                                          *)
(***************************************************************************)
EXTENDS Integers, Sequences, FiniteSets, TLC

\* ------------------------------------------------------------------ bounds
MaxTime == 2
MaxTTL == 1
MaxKw == 2
MaxCalls == 2
MaxScrapes == 2
MaxMemoCalls == 2
MaxThreads == 2
MaxThreadOps == 2
MaxPathCalls == 1

\* ------------------------------------------------------------ value domain
None == "None"
Keys == {"k1", "k2"}
Values == {None, "v1", "v2"}
NoTTL == <<>>
TTLs == {NoTTL} \cup {<<t>> : t \in -1..MaxTTL}

\* Mutant: only None is falsy.
TruthyUnlessNone(ttl) == ttl # NoTTL

\* Python truthiness of an Optional[int]: None and 0 are falsy.
Truthy(ttl) == ttl # NoTTL /\ ttl[1] # 0

\* dict helpers: d[k] = v, and d.pop(k, None) / del d[k] for a key present.
EmptyDict == [k \in {} |-> None]
Put(d, k, v) == [x \in (DOMAIN d) \cup {k} |-> IF x = k THEN v ELSE d[x]]
Remove(d, k) == [x \in (DOMAIN d) \ {k} |-> d[x]]

VARIABLES
    now,        \* the wall clock read by datetime.now()
    _cache,     \* MemoryCache._cache
    _expiry,    \* MemoryCache._expiry
    lastSet,    \* history: per key, the most recent set not followed by a delete
    ret,        \* the last operation observed by the caller and what it returned
    func_name,  \* key derivation: the operation the two calls are made on
    callA,      \* key derivation: a call's (args, kwargs), kwargs in call order
    callB,      \* key derivation: a second call on the same operation
    keyA,       \* key derivation: the key derived for callA, once derived
    keyB,       \* key derivation: the key derived for callB, once derived
    raw_source, \* SourceAdapter.raw_source: the client's attributes by name
    _methods,   \* SourceAdapter._methods: the table built at construction
    client_calls, \* the invocations the client has received, in order
    outcome,    \* what the last call on the adapter did for its caller
    listed,     \* the mapping a caller got from get_methods(), as the caller has it now
    redis_client, \* TwitterScraper.redis: None or a redis.Redis client
    redis_db,   \* the content of the Redis server: key -> value and TTL given
    redis_up,   \* whether the Redis server answers
    pc,         \* where the scrape() call of the TwitterScraper stands
    user_id,    \* _fetch_tweets: the local user_id
    api_calls,  \* how many times each client operation has been invoked
    scrapes,    \* how many scrape() calls have been started
    scrape_result, \* the ScrapeResult scrape() returned, once it has
    fault,      \* the exception that left scrape(), if one did
    cache,      \* CachedMethod.cache / Scraper.cache: None, "memory" or "redis"
    self_ttl,   \* CachedMethod.ttl
    wpc,        \* where the wrapper call in progress stands
    wcall,      \* the wrapper call in progress: its arguments
    last,       \* history: the wrapper call that ended last
    memo_stored, \* history: per key, what the last call that computed left
    ncalls,     \* how many wrapper calls have ended
    ncomputed,  \* how many times the wrapped function has been invoked
    callers,    \* concurrent callers of one MemoryCache: where each one stands
    written     \* history: per key, the set call its value is from and the expiry that call left

memVars == <<now, _cache, _expiry, lastSet, ret>>
keyVars == <<func_name, callA, callB, keyA, keyB>>
adapterVars == <<raw_source, _methods, client_calls, outcome, listed>>
redisVars == <<redis_client, redis_db, redis_up>>
callVars == <<pc, user_id, api_calls, scrapes, scrape_result, fault>>
scrapeVars == <<redisVars, callVars>>
memoVars == <<cache, self_ttl, wpc, wcall, last, memo_stored, ncalls, ncomputed>>
concVars == <<callers, written>>
vars == <<memVars, keyVars, adapterVars, scrapeVars, memoVars, concVars>>

\* What each component leaves alone.
notMem == <<keyVars, adapterVars, scrapeVars, memoVars, concVars>>
notKey == <<memVars, adapterVars, scrapeVars, memoVars, concVars>>
notAdapter == <<memVars, keyVars, scrapeVars, memoVars, concVars>>
notScrape == <<memVars, keyVars, adapterVars, memoVars, concVars>>
notRedis == <<_cache, _expiry, lastSet, keyVars, adapterVars, callVars, memoVars, concVars>>
notMemo == <<keyVars, adapterVars, callVars, redis_client, concVars>>
notConc == <<lastSet, ret, keyVars, adapterVars, scrapeVars, memoVars>>

\* The state of a component that a specification does not exercise.
KeyOff == func_name = "" /\ callA = <<>> /\ callB = <<>> /\ keyA = <<>> /\ keyB = <<>>
AdapterOff ==
    /\ raw_source = <<>> /\ _methods = <<>> /\ client_calls = <<>> /\ outcome = <<>>
    /\ listed = <<>>
ScrapeOff ==
    /\ redis_client = None
    /\ redis_db = <<>>
    /\ redis_up = TRUE
    /\ pc = ""
    /\ user_id = None
    /\ api_calls = <<>>
    /\ scrapes = 0
    /\ scrape_result = <<>>
    /\ fault = <<>>
ConcOff == callers = <<>> /\ written = <<>>
MemoOff ==
    /\ cache = None
    /\ self_ttl = NoTTL
    /\ wpc = ""
    /\ wcall = <<>>
    /\ last = <<>>
    /\ memo_stored = <<>>
    /\ ncalls = 0
    /\ ncomputed = 0

\* ---------------------------------------------------------- MemoryCache
\* Mutant: an expiry is never looked at.
IsExpiredNever(key) == FALSE

_is_expired(key) ==
    IF key \notin DOMAIN _expiry THEN FALSE ELSE now > _expiry[key]

\* What MemoryCache.get returns in the current state.
MemoryCache_get_result(key) ==
    IF key \notin DOMAIN _cache \/ _is_expired(key) THEN None ELSE _cache[key]

\* Mutant: exists that does not look at the expiry.
ExistsIgnoringExpiry(key) == key \in DOMAIN _cache

MemoryCache_exists(key) == key \in DOMAIN _cache /\ ~_is_expired(key)

\* Mutant: a set without TTL that leaves a previous expiry in place.
StickyExpiry(key, ttl) ==
    IF Truthy(ttl) THEN Put(_expiry, key, now + ttl[1]) ELSE _expiry

\* The _expiry dict after MemoryCache.set(key, _, ttl).
ExpiryAfterSet(key, ttl) ==
    IF Truthy(ttl) THEN Put(_expiry, key, now + ttl[1])
    ELSE IF key \in DOMAIN _expiry THEN Remove(_expiry, key)
    ELSE _expiry

\* History only: how key was stored when a set overwrote it.
StoredAs(key) ==
    IF key \notin DOMAIN _cache THEN "fresh"
    ELSE IF key \in DOMAIN _expiry THEN "ttl" ELSE "nottl"

Observed(op, key, val, found) ==
    [op |-> op, key |-> key, val |-> val, found |-> found]

\* Mutant: a get that evicts the value of a dead key and keeps its expiry.
GetKeepsExpiry(key) ==
    /\ ret' = Observed("get", key, MemoryCache_get_result(key), FALSE)
    /\ IF key \notin DOMAIN _cache \/ _is_expired(key)
       THEN _cache' = IF key \in DOMAIN _cache THEN Remove(_cache, key) ELSE _cache
       ELSE _cache' = _cache
    /\ UNCHANGED <<_expiry, now, lastSet>>

MemoryCache_get(key) ==
    /\ ret' = Observed("get", key, MemoryCache_get_result(key), FALSE)
    /\ IF key \notin DOMAIN _cache \/ _is_expired(key)
       THEN /\ _cache' = IF key \in DOMAIN _cache THEN Remove(_cache, key) ELSE _cache
            /\ _expiry' = IF key \in DOMAIN _expiry THEN Remove(_expiry, key) ELSE _expiry
       ELSE UNCHANGED <<_cache, _expiry>>
    /\ UNCHANGED <<now, lastSet>>

MemoryCache_set(key, value, ttl) ==
    /\ _cache' = Put(_cache, key, value)
    /\ _expiry' = ExpiryAfterSet(key, ttl)
    /\ lastSet' = [lastSet EXCEPT ![key] =
                      <<[v |-> value, ttl |-> ttl, at |-> now, over |-> StoredAs(key)]>>]
    /\ ret' = Observed("set", key, None, FALSE)
    /\ UNCHANGED now

\* Mutant: a delete that empties the cache.
DeleteEverything(key) ==
    /\ _cache' = EmptyDict
    /\ _expiry' = EmptyDict
    /\ lastSet' = [lastSet EXCEPT ![key] = <<>>]
    /\ ret' = Observed("delete", key, None, FALSE)
    /\ UNCHANGED now

MemoryCache_delete(key) ==
    /\ _cache' = Remove(_cache, key)
    /\ _expiry' = Remove(_expiry, key)
    /\ lastSet' = [lastSet EXCEPT ![key] = <<>>]
    /\ ret' = Observed("delete", key, None, FALSE)
    /\ UNCHANGED now

MemoryCache_exists_call(key) ==
    /\ ret' = Observed("exists", key, None, MemoryCache_exists(key))
    /\ UNCHANGED <<now, _cache, _expiry, lastSet>>

\* The clock advances by one second between two operations.
Tick ==
    /\ now < MaxTime
    /\ now' = now + 1
    /\ ret' = Observed("tick", "", None, FALSE)
    /\ UNCHANGED <<_cache, _expiry, lastSet>>

MemInit ==
    /\ now = 0
    /\ _cache = EmptyDict
    /\ _expiry = EmptyDict
    /\ lastSet = [k \in Keys |-> <<>>]
    /\ ret = Observed("init", "", None, FALSE)

MemOff == MemInit

Init == MemInit /\ KeyOff /\ AdapterOff /\ ScrapeOff /\ MemoOff /\ ConcOff

DoGet == \E k \in Keys : MemoryCache_get(k) /\ UNCHANGED notMem
DoSet ==
    \E k \in Keys, v \in Values, ttl \in TTLs :
        MemoryCache_set(k, v, ttl) /\ UNCHANGED notMem
DoDelete == \E k \in Keys : MemoryCache_delete(k) /\ UNCHANGED notMem
DoExists == \E k \in Keys : MemoryCache_exists_call(k) /\ UNCHANGED notMem
DoTick == Tick /\ UNCHANGED notMem

Next == DoGet \/ DoSet \/ DoDelete \/ DoExists \/ DoTick

Spec == Init /\ [][Next]_vars

\* ------------------------------------------------------ create_cache_key
\* Python values are written as their repr; kwargs is the sequence of
\* <<name, value>> pairs in the order the caller wrote them.
ArgValues == {"1", "'x'"}
PosArgs == {<<>>, <<"1">>, <<"'x'", "1">>}
KwNameList == <<"a", "b", "c", "d">>
KwNames == {KwNameList[i] : i \in 1..MaxKw}
Ops == {"get_user", "get_users_tweets"}

Range(seq) == {seq[i] : i \in DOMAIN seq}

\* The kwargs a caller can write: up to MaxKw pairs with distinct names.
KwargsSet ==
    {kw \in UNION {[1..n -> KwNames \X ArgValues] : n \in 0..MaxKw} :
        \A i, j \in DOMAIN kw : i # j => kw[i][1] # kw[j][1]}

Calls == [args : PosArgs, kwargs : KwargsSet]

\* The order of str: the names are single letters, compared by code point.
NameRank(name) == CHOOSE i \in DOMAIN KwNameList : KwNameList[i] = name

\* sorted(kwargs.items()): ascending by name (the names of a call differ, so the
\* tuple comparison never reaches the values).
RECURSIVE sorted(_)
sorted(items) ==
    IF items = <<>> THEN <<>>
    ELSE LET least == CHOOSE i \in DOMAIN items :
                         \A j \in DOMAIN items :
                             NameRank(items[i][1]) <= NameRank(items[j][1])
             rest == [k \in 1..(Len(items) - 1) |->
                         IF k < least THEN items[k] ELSE items[k + 1]]
         IN  <<items[least]>> \o sorted(rest)

\* json.dumps of a value: an int as its digits, a str in double quotes.
JsonOf(value) ==
    CASE value = "1" -> "1"
      [] value = "'x'" -> "\"x\""
      [] value \in Range(KwNameList) -> "\"" \o value \o "\""

RECURSIVE JsonList(_)
JsonList(texts) ==
    IF texts = <<>> THEN <<>>
    ELSE IF Len(texts) = 1 THEN texts[1]
    ELSE texts[1] \o <<",">> \o JsonList(Tail(texts))

\* json.dumps({"args": args, "kwargs": sorted items}, sort_keys=True) as the
\* sequence of its tokens.
key_string(args, items) ==
    <<"{", "\"args\"", ":", "[">>
    \o JsonList([i \in DOMAIN args |-> <<JsonOf(args[i])>>])
    \o <<"]", ",", "\"kwargs\"", ":", "[">>
    \o JsonList([i \in DOMAIN items |->
                    <<"[", JsonOf(items[i][1]), ",", JsonOf(items[i][2]), "]">>])
    \o <<"]", "}">>

Tokens ==
    <<"{", "}", "[", "]", ":", ",", "\"args\"", "\"kwargs\"", "1", "\"x\"",
      "\"a\"", "\"b\"", "\"c\"", "\"d\"">>
TokenCode(token) == CHOOSE i \in DOMAIN Tokens : Tokens[i] = token

\* hashlib.md5(...).hexdigest(): a digest of the text, a fold over its tokens
\* reduced to DigestSpace values.
DigestSpace == 1000003
RECURSIVE md5(_, _)
md5(text, h) ==
    IF text = <<>> THEN h
    ELSE md5(Tail(text), (h * 31 + TokenCode(Head(text))) % DigestSpace)

\* Mutant: the kwargs encoded in call order, not sorted.
KeyOfUnsortedKwargs(args, kwargs) == md5(key_string(args, kwargs), 7)

create_cache_key(args, kwargs) == md5(key_string(args, sorted(kwargs)), 7)

\* Scraper._get_cache_key and CachedMethod's cache_key: "<name>:<digest>".
_get_cache_key(name, call) == <<name, create_cache_key(call.args, call.kwargs)>>

KeyInit ==
    /\ func_name \in Ops
    /\ callA \in Calls
    /\ callB \in Calls
    /\ keyA = <<>>
    /\ keyB = <<>>

DeriveA ==
    /\ keyA = <<>>
    /\ keyA' = <<_get_cache_key(func_name, callA)>>
    /\ UNCHANGED <<func_name, callA, callB, keyB, notKey>>

DeriveB ==
    /\ keyB = <<>>
    /\ keyB' = <<_get_cache_key(func_name, callB)>>
    /\ UNCHANGED <<func_name, callA, callB, keyA, notKey>>

InitKey == KeyInit /\ MemOff /\ AdapterOff /\ ScrapeOff /\ MemoOff /\ ConcOff
NextKey == DeriveA \/ DeriveB
SpecKey == InitKey /\ [][NextKey]_vars

\* --------------------------------------------------------- SourceAdapter
\* The attributes a client object can have: what dir() lists.  Each has a
\* fixed kind; a callable attribute is a handle, named after the attribute.
AttrNames == {"get_user", "get_users_tweets", "_request", "bearer_token"}
CallableAttrs == {"get_user", "get_users_tweets", "_request"}
\* name.startswith('_')
startswith_underscore(name) == name \in {"_request", "_methods"}

\* The names a caller may ask the adapter for.
AskedNames == AttrNames \cup {"missing_op"}
ArgTuples == {<<"elonmusk">>, <<>>}
\* What a client operation does when invoked: it returns a value or raises.
Returned(value) == [value |-> value, exc |-> <<>>]
Raised(kind, what) == [value |-> None, exc |-> <<kind, what>>]
ClientOutcomes == {Returned("r1"), Returned(None), Raised("UpstreamError", "")}

\* The client objects a scraper can be constructed over.
Clients ==
    {[n \in present |-> [callable |-> n \in CallableAttrs, handle |-> n]] :
        present \in SUBSET AttrNames}

\* Mutant: private members are discovered too.
IntrospectPrivateToo(client) ==
    [n \in {a \in DOMAIN client : client[a].callable} |-> client[n].handle]

_introspect_methods(client) ==
    [n \in {a \in DOMAIN client : ~startswith_underscore(a) /\ client[a].callable}
        |-> client[n].handle]

\* SourceAdapter.__init__
AdapterInit ==
    /\ raw_source \in Clients
    /\ _methods = _introspect_methods(raw_source)
    /\ client_calls = <<>>
    /\ outcome = <<>>
    /\ listed = <<>>

\* SourceAdapter.__call__(method_name, *args); result is what the client
\* operation does if it is invoked.
SourceAdapter_call(method_name, args, result) ==
    IF method_name \notin DOMAIN _methods
    THEN /\ outcome' = <<[name |-> method_name, args |-> args,
                           before |-> Len(client_calls),
                           did |-> Raised("AttributeError", method_name)]>>
         /\ UNCHANGED client_calls
    ELSE /\ client_calls' =
               Append(client_calls,
                      [handle |-> _methods[method_name], args |-> args, did |-> result])
         /\ outcome' = <<[name |-> method_name, args |-> args,
                           before |-> Len(client_calls), did |-> result]>>

Invoke ==
    /\ Len(client_calls) < MaxCalls
    /\ \E name \in AskedNames, args \in ArgTuples, result \in ClientOutcomes :
           SourceAdapter_call(name, args, result)
    /\ UNCHANGED <<raw_source, _methods, listed, notAdapter>>

InitAdapter == AdapterInit /\ MemOff /\ KeyOff /\ ScrapeOff /\ MemoOff /\ ConcOff
NextAdapter == Invoke
SpecAdapter == InitAdapter /\ [][NextAdapter]_vars

\* ------------------------------------------------------------------ C6
\* A name the construction discovers: a public, callable member of the client.
Discovered(name) ==
    /\ name \in DOMAIN raw_source
    /\ raw_source[name].callable
    /\ ~startswith_underscore(name)

\* C6: a call by a name that is not discovered fails with AttributeError
\* naming the operation and invokes nothing on the client; a call by a
\* discovered name invokes that client operation exactly once with the
\* supplied arguments and hands back what it did, unmodified.
C6_InvokeByName ==
    outcome # <<>> =>
        LET o == outcome[1] IN
        IF Discovered(o.name)
        THEN /\ Len(client_calls) = o.before + 1
             /\ client_calls[Len(client_calls)] =
                   [handle |-> raw_source[o.name].handle, args |-> o.args, did |-> o.did]
        ELSE /\ Len(client_calls) = o.before
             /\ o.did = Raised("AttributeError", o.name)

\* Both cases have happened: a discovered operation was invoked once, and then
\* a call by a private name failed without reaching the client.
C6_Witness ==
    /\ outcome # <<>>
    /\ outcome[1].name = "_request"
    /\ "_request" \in DOMAIN raw_source
    /\ outcome[1].did = Raised("AttributeError", "_request")
    /\ Len(client_calls) = 1
    /\ client_calls[1].handle = "get_user"
    /\ client_calls[1].did = Returned("r1")

\* -------------------------------------- SourceAdapter: both calling paths
\* Clients that may also have a public operation named like a member of the
\* adapter itself: any object following the Source protocol has get_methods.
PathAttrNames == AttrNames \cup {"get_methods"}
PathClients ==
    {[n \in present |->
        [callable |-> n \in CallableAttrs \cup {"get_methods"}, handle |-> n]] :
        present \in SUBSET PathAttrNames}
PathAskedNames == PathAttrNames \cup {"missing_op"}

\* Mutant: get_methods hands out the table itself.
GetMethodsAliased == [ref |-> "table", map |-> <<>>, at |-> Len(client_calls)]

\* get_methods(): return self._methods.copy().  The caller holds a reference
\* to a new dict with the content of the table.
get_methods_result == [ref |-> "copy", map |-> _methods, at |-> Len(client_calls)]

\* adapter.name(*args): attribute lookup on the adapter, then the call.
\* Python finds get_methods on the adapter itself; __getattr__ is consulted
\* only for names it does not find there.
SourceAdapter_getattr(name, args, result) ==
    LET Ends(did) == outcome' = <<[name |-> name, args |-> args,
                                   before |-> Len(client_calls), did |-> did]>>
    IN  IF name = "get_methods"
        THEN /\ UNCHANGED client_calls
             /\ IF args = <<>>
                THEN Ends(Returned("table copy")) /\ listed' = get_methods_result
                ELSE Ends(Raised("TypeError", name)) /\ UNCHANGED listed
        ELSE /\ UNCHANGED listed
             /\ IF name \notin DOMAIN raw_source
                THEN Ends(Raised("AttributeError", name)) /\ UNCHANGED client_calls
                ELSE IF ~raw_source[name].callable
                THEN Ends(Raised("TypeError", name)) /\ UNCHANGED client_calls
                ELSE /\ client_calls' =
                           Append(client_calls,
                                  [handle |-> raw_source[name].handle,
                                   args |-> args, did |-> result])
                     /\ Ends(result)

\* adapter(method_name, *args)
InvokeByName ==
    /\ Len(client_calls) < MaxPathCalls
    /\ \E name \in PathAskedNames, args \in ArgTuples, result \in ClientOutcomes :
           SourceAdapter_call(name, args, result)
    /\ UNCHANGED <<raw_source, _methods, listed, notAdapter>>

\* adapter.name(*args)
InvokeByAttribute ==
    /\ Len(client_calls) < MaxPathCalls
    /\ \E name \in PathAskedNames, args \in ArgTuples, result \in ClientOutcomes :
           SourceAdapter_getattr(name, args, result)
    /\ UNCHANGED <<raw_source, _methods, notAdapter>>

\* The client object gets another function bound to one of its names after
\* the adapter was constructed over it.
ClientRebinds ==
    /\ "get_user" \in DOMAIN raw_source
    /\ raw_source["get_user"].handle = "get_user"
    /\ raw_source' = [raw_source EXCEPT !["get_user"].handle = "get_user rebound"]
    /\ UNCHANGED <<_methods, client_calls, outcome, listed, notAdapter>>

\* The caller edits the mapping it got: del m[name], or m[name] = handle.
\* The edit lands in the dict the caller's reference points to.
Edited(map, name, how) ==
    IF how = "del" THEN Remove(map, name) ELSE Put(map, name, "injected")
CallerEdits ==
    /\ listed # <<>>
    /\ \E name \in {"get_user", "missing_op"}, how \in {"del", "put"} :
          /\ how = "del" =>
                name \in DOMAIN (IF listed.ref = "copy" THEN listed.map ELSE _methods)
          /\ IF listed.ref = "copy"
             THEN /\ listed' = [listed EXCEPT !.map = Edited(@, name, how),
                                             !.at = Len(client_calls)]
                  /\ UNCHANGED _methods
             ELSE /\ _methods' = Edited(_methods, name, how)
                  /\ listed' = [listed EXCEPT !.at = Len(client_calls)]
    /\ UNCHANGED <<raw_source, client_calls, outcome, notAdapter>>

PathInit ==
    /\ raw_source \in PathClients
    /\ _methods = _introspect_methods(raw_source)
    /\ client_calls = <<>>
    /\ outcome = <<>>
    /\ listed = <<>>

InitPaths == PathInit /\ MemOff /\ KeyOff /\ ScrapeOff /\ MemoOff /\ ConcOff
NextPaths == InvokeByName \/ InvokeByAttribute \/ ClientRebinds \/ CallerEdits
SpecPaths == InitPaths /\ [][NextPaths]_vars

\* ----------------------------------------------------------------- C14
\* C14: whichever path the last call took, a call by a discovered name has
\* invoked, once and with the arguments given, the client operation the
\* by-name path invokes for that name, and handed back what it did.
C14_PathsAgree ==
    (outcome # <<>> /\ outcome[1].name \in DOMAIN _methods) =>
        /\ Len(client_calls) = outcome[1].before + 1
        /\ client_calls[Len(client_calls)] =
              [handle |-> _methods[outcome[1].name], args |-> outcome[1].args,
               did |-> outcome[1].did]

\* ----------------------------------------------------------------- C15
\* C15: no step changes the table by-name invocation looks names up in: not
\* an edit of the mapping get_methods() returned, and not a change of the
\* client after construction.
C15_TableIsSnapshot == [][_methods' = _methods]_vars

\* The caller removed get_user from the mapping it got and added a name of
\* its own, the client's get_user was rebound, and the by-name call of
\* get_user made after that still invoked the operation found at construction.
C15_Witness ==
    /\ listed # <<>>
    /\ listed.ref = "copy"
    /\ "get_user" \notin DOMAIN listed.map
    /\ "missing_op" \in DOMAIN listed.map
    /\ "get_user" \in DOMAIN raw_source
    /\ raw_source["get_user"].handle = "get_user rebound"
    /\ outcome # <<>>
    /\ outcome[1].name = "get_user"
    /\ outcome[1].did = Returned("r1")
    /\ listed.at <= outcome[1].before
    /\ Len(client_calls) = 1
    /\ client_calls[1].handle = "get_user"

\* ------------------------------------------------------------ redis.Redis
\* The client calls the code makes on a reachable server.  An entry is
\* [value, expire_at]; expire_at is <<>> for a key without expiry.  The server
\* answers for a key until its expiry instant has passed.
redis_live(key) ==
    /\ key \in DOMAIN redis_db
    /\ (redis_db[key].expire_at = <<>> \/ now <= redis_db[key].expire_at[1])
redis_get(key) == IF redis_live(key) THEN redis_db[key].value ELSE None
redis_exists(key) == redis_live(key)
\* redis_db after client.setex(key, ttl, value), for ttl > 0.
redis_setex(key, ttl, value) ==
    Put(redis_db, key, [value |-> value, expire_at |-> <<now + ttl>>])
\* redis_db after client.set(key, value).
redis_set(key, value) == Put(redis_db, key, [value |-> value, expire_at |-> <<>>])
\* redis_db after client.delete(key).
redis_delete(key) == Remove(redis_db, key)

\* The Redis server becomes unreachable, or reachable again.
RedisFlips ==
    /\ redis_client # None
    /\ redis_up' = ~redis_up
    /\ UNCHANGED <<redis_client, redis_db, pc, user_id, api_calls, scrapes,
                   scrape_result, fault, notScrape>>

\* ------------------------------------------------------------- RedisCache
key_prefix == "scout:"
_make_key(key) == <<key_prefix, key>>

\* The values a caller may store, written as their Python repr: None, a str,
\* a tuple, and a dict with a tuple key.
RedisValues == {None, "v1", "(1, 2)", "{(1, 2): 3}"}
Garbage == "not json"

\* json.dumps(value, default=str): the text, or the exception it raises.
\* default= is applied to values, not to dict keys, so a dict with a tuple key
\* raises TypeError.
json_dumps(value) ==
    CASE value = None -> [text |-> "null", exc |-> <<>>]
      [] value = "v1" -> [text |-> "\"v1\"", exc |-> <<>>]
      [] value = "(1, 2)" -> [text |-> "[1, 2]", exc |-> <<>>]
      [] value = "{(1, 2): 3}" -> [text |-> "", exc |-> <<"TypeError">>]

\* json.loads(text): the value, or json.JSONDecodeError.  An array is read
\* back as a list.
json_loads(text) ==
    CASE text = "null" -> [value |-> None, exc |-> <<>>]
      [] text = "\"v1\"" -> [value |-> "v1", exc |-> <<>>]
      [] text = "[1, 2]" -> [value |-> "[1, 2]", exc |-> <<>>]
      [] OTHER -> [value |-> None, exc |-> <<"JSONDecodeError">>]

\* What the caller of a RedisCache operation observes, with the conditions the
\* operation ran under: whether the server answered, whether the payload read
\* was undecodable, and whether the content of the server changed.
RedisObserved(name, key, val, found, exc, undecodable, changed) ==
    [op |-> name, key |-> key, val |-> val, found |-> found, exc |-> exc,
     up |-> redis_up, undecodable |-> undecodable, changed |-> changed]

\* The exceptions each except clause names.
CaughtByGet == {"RedisError", "JSONDecodeError"}
CaughtBySet == {"RedisError", "JSONDecodeError"}

RedisCache_get(key) ==
    LET data == redis_get(_make_key(key))
        read == json_loads(data)
        raised == IF ~redis_up THEN <<"RedisError">>
                  ELSE IF data = None THEN <<>>
                  ELSE read.exc
        val == IF raised # <<>> \/ data = None THEN None ELSE read.value
        escapes == IF raised # <<>> /\ raised[1] \notin CaughtByGet THEN raised ELSE <<>>
    IN  /\ ret' = RedisObserved("get", key, val, FALSE, escapes,
                                redis_up /\ data # None /\ read.exc # <<>>, FALSE)
        /\ UNCHANGED <<now, redisVars>>

\* The exception RedisCache.set lets out, if any.  setex refuses a TTL that is
\* not positive with a ResponseError, which is a RedisError.
RedisCache_set_raises(value, ttl) ==
    LET dumped == json_dumps(value)
        raised == IF dumped.exc # <<>> THEN dumped.exc
                  ELSE IF ~redis_up THEN <<"RedisError">>
                  ELSE IF Truthy(ttl) /\ ttl[1] <= 0 THEN <<"RedisError">>
                  ELSE <<>>
    IN  IF raised # <<>> /\ raised[1] \notin CaughtBySet THEN raised ELSE <<>>

\* Whether RedisCache.set gets the entry onto the server.
RedisCache_set_stores(value, ttl) ==
    /\ json_dumps(value).exc = <<>>
    /\ redis_up
    /\ ~(Truthy(ttl) /\ ttl[1] <= 0)

RedisCache_set(key, value, ttl) ==
    LET dumped == json_dumps(value)
        stored == RedisCache_set_stores(value, ttl)
        after == IF ~stored THEN redis_db
                 ELSE IF Truthy(ttl) THEN redis_setex(_make_key(key), ttl[1], dumped.text)
                 ELSE redis_set(_make_key(key), dumped.text)
    IN  /\ redis_db' = after
        /\ ret' = RedisObserved("set", key, None, FALSE,
                                RedisCache_set_raises(value, ttl), FALSE, after # redis_db)
        /\ UNCHANGED <<now, redis_client, redis_up>>

RedisCache_delete(key) ==
    LET after == IF redis_up THEN redis_delete(_make_key(key)) ELSE redis_db IN
    /\ redis_db' = after
    /\ ret' = RedisObserved("delete", key, None, FALSE, <<>>, FALSE, after # redis_db)
    /\ UNCHANGED <<now, redis_client, redis_up>>

RedisCache_exists(key) ==
    /\ ret' = RedisObserved("exists", key, None,
                            redis_up /\ redis_exists(_make_key(key)), <<>>, FALSE, FALSE)
    /\ UNCHANGED <<now, redisVars>>

\* Another user of the shared store leaves a payload that is not JSON.
ForeignWrite(key) ==
    /\ redis_up
    /\ redis_db' = redis_set(_make_key(key), Garbage)
    /\ ret' = Observed("foreign", key, None, FALSE)
    /\ UNCHANGED <<now, redis_client, redis_up>>

\* RedisCache.__init__ against a server that answers and holds nothing yet.
RedisInit ==
    /\ redis_client = "redis"
    /\ redis_db = EmptyDict
    /\ redis_up = TRUE
    /\ pc = ""
    /\ user_id = None
    /\ api_calls = <<>>
    /\ scrapes = 0
    /\ scrape_result = <<>>
    /\ fault = <<>>

RedisGet == \E k \in Keys : RedisCache_get(k) /\ UNCHANGED notRedis
RedisSet ==
    \E k \in Keys, v \in RedisValues, ttl \in TTLs :
        RedisCache_set(k, v, ttl) /\ UNCHANGED notRedis
RedisDelete == \E k \in Keys : RedisCache_delete(k) /\ UNCHANGED notRedis
RedisExists == \E k \in Keys : RedisCache_exists(k) /\ UNCHANGED notRedis
RedisForeign == \E k \in Keys : ForeignWrite(k) /\ UNCHANGED notRedis

InitRedis == MemInit /\ KeyOff /\ AdapterOff /\ RedisInit /\ MemoOff /\ ConcOff
NextRedis ==
    \/ RedisGet \/ RedisSet \/ RedisDelete \/ RedisExists
    \/ RedisForeign \/ RedisFlips \/ DoTick
SpecRedis == InitRedis /\ [][NextRedis]_vars

\* ------------------------------------------- both backends, side by side
\* One caller runs every operation on a MemoryCache and then, at the same
\* instant and with the same arguments, on a RedisCache whose server answers.
PairKeys == {"k1"}
\* Values that json.dumps and json.loads hand back unchanged.
PairValues == {None, "v1"}
\* The MemoryCache has run an operation that the RedisCache has yet to run.
Pending == ret.op \in {"get", "set", "delete", "exists"} /\ "exc" \notin DOMAIN ret

PairMemory ==
    /\ ~Pending
    /\ \E k \in PairKeys :
          \/ MemoryCache_get(k)
          \/ \E v \in PairValues, ttl \in TTLs : MemoryCache_set(k, v, ttl)
          \/ MemoryCache_delete(k)
          \/ MemoryCache_exists_call(k)
    /\ UNCHANGED notMem

PairRedis ==
    /\ Pending
    /\ CASE ret.op = "get" -> RedisCache_get(ret.key)
         [] ret.op = "set" ->
              RedisCache_set(ret.key, lastSet[ret.key][1].v, lastSet[ret.key][1].ttl)
         [] ret.op = "delete" -> RedisCache_delete(ret.key)
         [] ret.op = "exists" -> RedisCache_exists(ret.key)
    /\ UNCHANGED notRedis

PairTick == ~Pending /\ DoTick

InitPair == InitRedis
NextPair == PairMemory \/ PairRedis \/ PairTick
SpecPair == InitPair /\ [][NextPair]_vars

\* ----------------------------------------------------------------- C17
\* C17: whenever the RedisCache runs the get or the exists the MemoryCache
\* has just run, it returns what the MemoryCache returned.
C17_BackendsAgree ==
    [][(Pending /\ "exc" \in DOMAIN ret') =>
          /\ ret.op = "get" => ret'.val = ret.val
          /\ ret.op = "exists" => ret'.found = ret.found]_vars

\* ----------------------------------------------------------------- C20
\* C20: once both backends have run it, a set with ttl 0 that no later set or
\* delete on the key has followed leaves the key without expiry in both, and
\* get returns the value in both, however much time has passed.
C20_ZeroTTLIsNoTTL ==
    \A k \in PairKeys :
        (~Pending /\ lastSet[k] # <<>> /\ lastSet[k][1].ttl = <<0>>) =>
            /\ k \notin DOMAIN _expiry
            /\ MemoryCache_get_result(k) = lastSet[k][1].v
            /\ _make_key(k) \in DOMAIN redis_db
            /\ redis_db[_make_key(k)].expire_at = <<>>
            /\ json_loads(redis_get(_make_key(k))) =
                  [value |-> lastSet[k][1].v, exc |-> <<>>]

\* A set with ttl 0 replaced an entry that had an expiry, both backends ran
\* it, and every TTL the earlier set can have had has since run out.
C20_Witness ==
    /\ ~Pending
    /\ lastSet["k1"] # <<>>
    /\ lastSet["k1"][1].ttl = <<0>>
    /\ lastSet["k1"][1].v = "v1"
    /\ lastSet["k1"][1].over = "ttl"
    /\ now >= lastSet["k1"][1].at + MaxTTL + 1
    /\ ret.op = "get"
    /\ "exc" \in DOMAIN ret
    /\ ret.val = "v1"

\* ------------------------------------------------------------------ C8
RedisOps == {"get", "set", "delete", "exists"}

\* C8: the four operations of RedisCache are total: none lets a fault out to
\* its caller; with the store unreachable get returns absent, exists returns
\* false and set and delete change nothing; a get of a payload that cannot be
\* decoded returns absent.
C8_RedisOpsTotal ==
    (ret.op \in RedisOps /\ "exc" \in DOMAIN ret) =>
        /\ ret.exc = <<>>
        /\ ~ret.up => (ret.val = None /\ ~ret.found /\ ~ret.changed)
        /\ ret.undecodable => ret.val = None

\* ----------------------------------------------------------- CachedMethod
\* The calls made on the memoized method (without self): two of them write
\* the same keyword arguments in another order.
MemoCalls ==
    {[args |-> <<"1">>, kwargs |-> <<>>],
     [args |-> <<>>, kwargs |-> <<<<"a", "1">>, <<"b", "'x'">>>>],
     [args |-> <<>>, kwargs |-> <<<<"b", "'x'">>, <<"a", "1">>>>]}
\* What the wrapped function can return: None, a str, a tuple.
ComputeResults == {None, "v1", "(1, 2)"}

\* f"{self.key_prefix}{func.__name__}:{create_cache_key(*args[1:], **kwargs)}"
\* with the default key_prefix "".
wrapper_cache_key(call) == _get_cache_key("resolve_id", call)
\* A key made by Scraper._get_cache_key for a scraper's own use.
ScraperKey == _get_cache_key("TwitterScraper", [args |-> <<"1">>, kwargs |-> <<>>])
WrapperKeys == {wrapper_cache_key(c) : c \in MemoCalls}
MemoKeys == WrapperKeys \cup {ScraperKey}

\* Mutant: a cached value is never taken.
NeverCached(cached_result) == FALSE

\* if cached_result is not None
is_cached(cached_result) == cached_result # None

\* History: a wrapper call that has ended: what it returned or raised, and
\* whether it ran the wrapped function.
Ended(result, exc, computed) ==
    <<[result |-> result, exc |-> exc, computed |-> computed]>>

\* self.cache.get(key) on the configured backend; cache is not None.
cache_get(key) ==
    IF cache = "memory"
    THEN MemoryCache_get(key) /\ UNCHANGED <<redis_db, redis_up>>
    ELSE RedisCache_get(key) /\ UNCHANGED <<_cache, _expiry, lastSet, redis_client>>

\* self.cache.set(key, value, ttl) on the configured backend; cache is not None.
cache_set(key, value, ttl) ==
    IF cache = "memory"
    THEN MemoryCache_set(key, value, ttl) /\ UNCHANGED <<redis_db, redis_up>>
    ELSE RedisCache_set(key, value, ttl) /\ UNCHANGED <<_cache, _expiry, lastSet>>

\* wrapper, lines 140-146: the key and the cache lookup.  On None, .get is an
\* attribute of nothing: AttributeError.
wrapper_lookup(call) ==
    /\ wpc = "idle"
    /\ ncalls < MaxMemoCalls
    /\ LET cache_key == wrapper_cache_key(call) IN
       IF cache = None
       THEN /\ last' = Ended(None, <<"AttributeError">>, FALSE)
            /\ ncalls' = ncalls + 1
            /\ UNCHANGED <<wpc, wcall, memVars, redis_db, redis_up>>
       ELSE /\ cache_get(cache_key)
            /\ IF is_cached(ret'.val)
               THEN /\ last' = Ended(ret'.val, <<>>, FALSE)
                    /\ ncalls' = ncalls + 1
                    /\ UNCHANGED <<wpc, wcall>>
               ELSE /\ wpc' = "compute"
                    /\ wcall' = <<call>>
                    /\ UNCHANGED <<last, ncalls>>
    /\ UNCHANGED <<cache, self_ttl, memo_stored, ncomputed, notMemo>>

\* wrapper, lines 148-154: the wrapped function runs and its result is stored.
\* History: memo_stored keeps, per key, the result the last call that computed
\* and returned gave, the instant of its cache.set and whether the backend
\* took the entry.
wrapper_compute(result) ==
    /\ wpc = "compute"
    /\ LET cache_key == wrapper_cache_key(wcall[1])
           exc == IF cache = "redis" THEN RedisCache_set_raises(result, self_ttl) ELSE <<>>
       IN  /\ cache_set(cache_key, result, self_ttl)
           /\ last' = Ended(IF exc = <<>> THEN result ELSE None, exc, TRUE)
           /\ memo_stored' =
                 IF exc # <<>> THEN memo_stored
                 ELSE [memo_stored EXCEPT ![cache_key] =
                         <<[result |-> result, set_at |-> now,
                            stored |-> cache = "redis" =>
                                         RedisCache_set_stores(result, self_ttl)]>>]
    /\ wpc' = "idle"
    /\ wcall' = <<>>
    /\ ncalls' = ncalls + 1
    /\ ncomputed' = ncomputed + 1
    /\ UNCHANGED <<cache, self_ttl, notMemo>>

\* Mutant: a result is stored before the failure of the wrapped function
\* leaves the wrapper.
StoreThenRaise ==
    /\ wpc = "compute"
    /\ cache_set(wrapper_cache_key(wcall[1]), "v1", NoTTL)
    /\ last' = Ended(None, <<"UpstreamError">>, TRUE)
    /\ wpc' = "idle"
    /\ wcall' = <<>>
    /\ ncalls' = ncalls + 1
    /\ ncomputed' = ncomputed + 1
    /\ UNCHANGED <<cache, self_ttl, memo_stored, notMemo>>

\* wrapper, line 149: the wrapped function raises; nothing is stored.
wrapper_compute_raises ==
    /\ wpc = "compute"
    /\ last' = Ended(None, <<"UpstreamError">>, TRUE)
    /\ wpc' = "idle"
    /\ wcall' = <<>>
    /\ ncalls' = ncalls + 1
    /\ ncomputed' = ncomputed + 1
    /\ UNCHANGED <<cache, self_ttl, memo_stored, notMemo, memVars, redis_db, redis_up>>

\* Scraper._cache_get(key)
_cache_get(key) ==
    /\ wpc = "idle"
    /\ IF cache = None
       THEN /\ ret' = Observed("_cache_get", key, None, FALSE)
            /\ UNCHANGED <<now, _cache, _expiry, lastSet, redis_db, redis_up>>
       ELSE cache_get(key)
    /\ UNCHANGED <<memoVars, notMemo>>

\* Scraper._cache_set(key, value, ttl)
_cache_set(key, value, ttl) ==
    /\ wpc = "idle"
    /\ IF cache # None
       THEN cache_set(key, value, ttl)
       ELSE /\ ret' = Observed("_cache_set", key, None, FALSE)
            /\ UNCHANGED <<now, _cache, _expiry, lastSet, redis_db, redis_up>>
    /\ UNCHANGED <<memoVars, notMemo>>

\* CachedMethod(cache, ttl) decorating a method, Scraper(raw_source, cache).
MemoInit ==
    /\ cache \in {None, "memory", "redis"}
    /\ self_ttl \in TTLs
    /\ wpc = "idle"
    /\ wcall = <<>>
    /\ last = <<>>
    /\ memo_stored = [k \in WrapperKeys |-> <<>>]
    /\ ncalls = 0
    /\ ncomputed = 0
    /\ now = 0
    /\ _cache = EmptyDict
    /\ _expiry = EmptyDict
    /\ lastSet = [k \in MemoKeys |-> <<>>]
    /\ ret = Observed("init", "", None, FALSE)
    /\ redis_client = IF cache = "redis" THEN "redis" ELSE None
    /\ redis_db = EmptyDict
    /\ redis_up = TRUE
    /\ pc = ""
    /\ user_id = None
    /\ api_calls = <<>>
    /\ scrapes = 0
    /\ scrape_result = <<>>
    /\ fault = <<>>

MemoCall == \E call \in MemoCalls : wrapper_lookup(call)
MemoCompute == \E result \in ComputeResults : wrapper_compute(result)
MemoHelperGet == _cache_get(ScraperKey)
MemoHelperSet == _cache_set(ScraperKey, "v1", NoTTL)

\* The memoized method, called by one caller at a time.
InitMemo == MemoInit /\ KeyOff /\ AdapterOff /\ ConcOff
NextMemo ==
    \/ MemoCall \/ MemoCompute \/ wrapper_compute_raises
    \/ DoTick \/ RedisFlips
SpecMemo == InitMemo /\ [][NextMemo]_vars

\* The cache helpers of a Scraper, called by one caller at a time.
NextHelpers == MemoHelperGet \/ MemoHelperSet \/ DoTick \/ RedisFlips
SpecHelpers == InitMemo /\ [][NextHelpers]_vars

\* ------------------------------------------------------------------ C4
\* The entry the last computing call for the key left is unexpired now, by the
\* TTL the wrapper stores with: no expiry for a falsy TTL, else until the
\* instant of its cache.set plus the TTL has passed.
MemoUnexpired(key) ==
    /\ memo_stored[key] # <<>>
    /\ (~Truthy(self_ttl) \/ now <= memo_stored[key][1].set_at + self_ttl[1])
FirstResult(key) == memo_stored[key][1].result
\* The value comes back from json.loads(json.dumps(value)) equal to itself.
JsonStable(value) ==
    /\ json_dumps(value).exc = <<>>
    /\ json_loads(json_dumps(value).text) = [value |-> value, exc |-> <<>>]
\* The backend holds the entry as the first call gave it.
KeptFaithfully(key) ==
    \/ cache = "memory"
    \/ /\ cache = "redis"
       /\ memo_stored[key][1].stored
       /\ redis_up
       /\ JsonStable(FirstResult(key))

\* A step in which the wrapper looks its key up in the configured cache: the
\* call ends there (a hit) or goes on to run the wrapped function (a miss).
\* The key looked up is ret'.key.
LookupStep ==
    /\ cache # None
    /\ wpc = "idle"
    /\ (ncalls' = ncalls + 1 \/ wpc' = "compute")

\* C4 as stated: a call with the arguments of an earlier call that computed and
\* returned, made while the entry of that call is unexpired, does not run the
\* wrapped function and returns what the earlier call returned, whatever that
\* result is.
C4_SecondCallSameResult ==
    [][(LookupStep /\ MemoUnexpired(ret'.key)) =>
          /\ wpc' = "idle"
          /\ last'[1].result = FirstResult(ret'.key)]_vars

\* C4 amended: the same, for a result that is not None and an entry the backend
\* holds as given: the in-memory cache, or the Redis cache when the server
\* took the entry, answers the second call, and the result is unchanged by
\* a JSON round trip.
C4_SecondCallSameResultNotNone ==
    [][(/\ LookupStep
        /\ MemoUnexpired(ret'.key)
        /\ FirstResult(ret'.key) # None
        /\ KeptFaithfully(ret'.key)) =>
          /\ wpc' = "idle"
          /\ ncomputed' = ncomputed
          /\ last'[1] = [result |-> FirstResult(ret'.key),
                         exc |-> <<>>, computed |-> FALSE]]_vars

\* A second call has just been answered from the cache at the last instant
\* before the entry of the first expires, one call having computed.
C4_Witness ==
    /\ ncalls = 2
    /\ ncomputed = 1
    /\ wpc = "idle"
    /\ last # <<>>
    /\ ~last[1].computed
    /\ ret.op = "get"
    /\ Truthy(self_ttl)
    /\ \E key \in WrapperKeys :
          /\ memo_stored[key] # <<>>
          /\ now = memo_stored[key][1].set_at + self_ttl[1]
          /\ now > memo_stored[key][1].set_at
          /\ last[1].result = FirstResult(key)

\* ------------------------------------------------------------------ C5
\* C5: with no cache configured, every call of the memoized method so far has
\* run the wrapped function once, and none has raised for the missing cache.
C5_PassThroughWithoutCache ==
    cache = None =>
        /\ ncomputed = ncalls
        /\ last # <<>> => last[1].exc # <<"AttributeError">>

\* -------------------------------------------------------- TwitterScraper
UserIdTTL == 2592000
TweetsTTL == 900
username == "elonmusk"
Tweets == <<"tweet1", "tweet2">>

\* What client.get_user can do: raise, return something that is no
\* tweepy.Response, return a Response without data, or one with the user.
GetUserOutcomes == {"raises", "not_response", "no_data", "user"}
\* What client.get_users_tweets can do.
GetTweetsOutcomes == {"raises", "not_response", "no_data", "tweets"}

\* A Python str is truthy unless it is empty; None is falsy.
TruthyStr(x) == x # None /\ x # ""

Leave(kind) ==
    /\ pc' = "Raised"
    /\ fault' = <<kind>>
    /\ scrape_result' = <<>>

\* TwitterScraper.__init__ over a client and an optional Redis client; the
\* Redis server may already hold entries written by earlier runs.
ScraperInit ==
    /\ raw_source \in Clients
    /\ _methods = _introspect_methods(raw_source)
    /\ client_calls = <<>>
    /\ outcome = <<>>
    /\ listed = <<>>
    /\ redis_client \in {None, "redis"}
    /\ redis_db \in {EmptyDict,
                      [k \in {<<"twitter_user_id", username>>} |->
                          [value |-> "id-0", expire_at |-> <<UserIdTTL>>]],
                      [k \in {<<"twitter_user_id", username>>} |->
                          [value |-> "", expire_at |-> <<UserIdTTL>>]]}
    /\ redis_up \in BOOLEAN
    /\ pc = "Idle"
    /\ user_id = None
    /\ api_calls = [n \in {"get_user", "get_users_tweets"} |-> 0]
    /\ scrapes = 0
    /\ scrape_result = <<>>
    /\ fault = <<>>

\* scrape() is called: _fetch_tweets starts with _get_user_id_cached.
scrape ==
    /\ pc \in {"Idle", "Completed", "Raised"}
    /\ scrapes < MaxScrapes
    /\ scrapes' = scrapes + 1
    /\ pc' = "user_id_cache"
    /\ user_id' = None
    /\ scrape_result' = <<>>
    /\ fault' = <<>>
    /\ UNCHANGED <<redis_client, redis_db, redis_up, api_calls, notScrape>>

\* _get_user_id_cached, lines 40-45: the cache is tried first.
_get_user_id_cached_lookup ==
    /\ pc = "user_id_cache"
    /\ LET cache_key == <<"twitter_user_id", username>> IN
       IF redis_client # None
       THEN IF ~redis_up
            THEN Leave("RedisError") /\ UNCHANGED user_id
            ELSE LET cached == redis_get(cache_key)
                 IN  IF TruthyStr(cached)
                     THEN /\ user_id' = cached
                          /\ pc' = "tweets"
                          /\ UNCHANGED <<fault, scrape_result>>
                     ELSE /\ pc' = "get_user"
                          /\ UNCHANGED <<user_id, fault, scrape_result>>
       ELSE /\ pc' = "get_user"
            /\ UNCHANGED <<user_id, fault, scrape_result>>
    /\ UNCHANGED <<redis_client, redis_db, redis_up, api_calls, scrapes, notScrape>>

\* _get_user_id_cached, lines 47-57: the API call and the 30-day cache write.
_get_user_id_cached_fetch ==
    /\ pc = "get_user"
    /\ UNCHANGED <<redis_client, redis_up, scrapes, notScrape>>
    /\ IF "get_user" \notin DOMAIN raw_source
       THEN Leave("AttributeError") /\ UNCHANGED <<user_id, redis_db, api_calls>>
       ELSE /\ api_calls' = [api_calls EXCEPT !["get_user"] = @ + 1]
            /\ \E did \in GetUserOutcomes :
                 CASE did = "raises" ->
                        Leave("UpstreamError") /\ UNCHANGED <<user_id, redis_db>>
                   [] did = "not_response" ->
                        Leave("AssertionError") /\ UNCHANGED <<user_id, redis_db>>
                   [] did = "no_data" ->
                        Leave("TypeError") /\ UNCHANGED <<user_id, redis_db>>
                   [] did = "user" ->
                        /\ user_id' = "id-1"
                        /\ IF redis_client # None
                           THEN IF ~redis_up
                                THEN Leave("RedisError") /\ UNCHANGED redis_db
                                ELSE /\ redis_db' =
                                           redis_setex(<<"twitter_user_id", username>>,
                                                       UserIdTTL, "id-1")
                                     /\ pc' = "tweets"
                                     /\ UNCHANGED <<fault, scrape_result>>
                           ELSE /\ pc' = "tweets"
                                /\ UNCHANGED <<redis_db, fault, scrape_result>>

\* ScrapeResult(data=tweets, timestamp=datetime.now()): error keeps its
\* default, None.
ScrapeResult(data) == <<[data |-> data, error |-> None]>>

\* _get_tweets_cached and the return of scrape().
_get_tweets_cached ==
    /\ pc = "tweets"
    /\ UNCHANGED <<redis_client, redis_up, scrapes, user_id, notScrape>>
    /\ IF "get_users_tweets" \notin DOMAIN raw_source
       THEN Leave("AttributeError") /\ UNCHANGED <<redis_db, api_calls>>
       ELSE /\ api_calls' = [api_calls EXCEPT !["get_users_tweets"] = @ + 1]
            /\ \E did \in GetTweetsOutcomes :
                 CASE did = "raises" -> Leave("UpstreamError") /\ UNCHANGED redis_db
                   [] did = "not_response" ->
                        Leave("AssertionError") /\ UNCHANGED redis_db
                   [] did = "no_data" ->
                        /\ pc' = "Completed"
                        /\ scrape_result' = ScrapeResult(<<>>)
                        /\ UNCHANGED <<redis_db, fault>>
                   [] did = "tweets" ->
                        IF redis_client # None /\ ~redis_up
                        THEN Leave("RedisError") /\ UNCHANGED redis_db
                        ELSE /\ redis_db' =
                                   IF redis_client # None
                                   THEN redis_setex(<<"twitter_tweets", user_id>>,
                                                    TweetsTTL, "2")
                                   ELSE redis_db
                             /\ pc' = "Completed"
                             /\ scrape_result' = ScrapeResult(Tweets)
                             /\ UNCHANGED fault

InitScrape == ScraperInit /\ MemOff /\ KeyOff /\ MemoOff /\ ConcOff
NextScrape ==
    \/ scrape
    \/ _get_user_id_cached_lookup
    \/ _get_user_id_cached_fetch
    \/ _get_tweets_cached
    \/ RedisFlips
SpecScrape == InitScrape /\ [][NextScrape]_vars

\* ------------------------------------------------------------------ C7
\* The faults of a missing capability (AttributeError) and of a failed
\* upstream invocation: the operation raised, or its answer was unusable.
UpstreamFaults == {"AttributeError", "UpstreamError", "AssertionError", "TypeError"}

\* C7: a missing capability or a failed upstream invocation (get_user or
\* get_users_tweets) never leaves scrape() as a raised fault: the call returns
\* a ScrapeResult with empty data and a non-empty error.
C7_ScrapeNeverRaises ==
    /\ fault # <<>> => fault[1] \notin UpstreamFaults
    /\ pc = "Completed" => scrape_result # <<>>
    /\ scrape_result # <<>> =>
          (scrape_result[1].error # None => scrape_result[1].data = <<>>)

\* ----------------------------------------------------------------- C11
\* The memoized method and the scraper side by side: a behaviour is one of
\* the CachedMethod wrapper or one of the TwitterScraper.
InitSteps == InitMemo \/ InitScrape
NextSteps == NextMemo \/ NextScrape
SpecSteps == InitSteps /\ [][NextSteps]_vars

\* A step in which the wrapped function fails inside the wrapper.
ComputeFails ==
    /\ wpc = "compute"
    /\ wpc' = "idle"
    /\ last' # <<>>
    /\ last'[1].exc = <<"UpstreamError">>
\* A step in which the client operation of a fetching step of scrape() fails.
FetchFails ==
    /\ pc \in {"get_user", "tweets"}
    /\ fault' # <<>>
    /\ fault'[1] \in UpstreamFaults
\* The content of every cache: the in-memory one and the Redis server.
Stores == <<_cache, _expiry, redis_db>>

\* C11: a step in which the underlying operation fails leaves every cache
\* entry as it was, and the failure is what the caller gets: the wrapper ends
\* with the exception and no result, and scrape() ends raised with no result.
C11_FailedComputeStoresNothing ==
    [][/\ ComputeFails =>
             /\ Stores' = Stores
             /\ last'[1] = [result |-> None, exc |-> <<"UpstreamError">>,
                            computed |-> TRUE]
       /\ FetchFails =>
             /\ Stores' = Stores
             /\ pc' = "Raised"
             /\ scrape_result' = <<>>]_vars

\* The wrapped function has just failed in a second call, the first call
\* having left an entry in the in-memory cache.
C11_Witness ==
    /\ cache = "memory"
    /\ wpc = "idle"
    /\ ncalls = 2
    /\ ncomputed = 2
    /\ last # <<>>
    /\ last[1].exc = <<"UpstreamError">>
    /\ _cache # EmptyDict

\* ----------------------------------------------------------------- C12
\* C12: no fault of the cache layer leaves scrape(): with the Redis server
\* unreachable a scrape() still goes on to the client, so it never ends
\* raised with a RedisError.
C12_CacheFaultNeverSurfaces ==
    /\ fault # <<>> => fault[1] # "RedisError"
    /\ (pc = "Raised" /\ redis_client # None /\ ~redis_up) =>
           api_calls["get_user"] + api_calls["get_users_tweets"] > 0

\* ----------------------------------------------------------------- C13
\* The key each fetching step of scrape() stores its result under.
UserIdKey == <<"twitter_user_id", username>>
TweetsKey(id) == <<"twitter_tweets", id>>
\* The reachable Redis server holds an unexpired, non-empty entry for the key.
Warm(key) ==
    /\ redis_client # None
    /\ redis_up
    /\ redis_live(key)
    /\ TruthyStr(redis_db[key].value)

\* C13: a fetching step of scrape() whose key has an unexpired entry in the
\* cache does not invoke its client operation: identifier resolution does not
\* call get_user, the collection fetch does not call get_users_tweets.
C13_WarmStepsSkipUpstream ==
    [][/\ (pc = "user_id_cache" /\ Warm(UserIdKey)) => pc' # "get_user"
       /\ (pc = "tweets" /\ Warm(TweetsKey(user_id))) => api_calls' = api_calls]_vars

\* ------------------------------------------------------------------ C9
\* Two calls are equal after reordering keyword arguments: the same positional
\* arguments and the same name-to-value pairs.
SameCall(a, b) == a.args = b.args /\ Range(a.kwargs) = Range(b.kwargs)

\* C9: for every operation, two calls that are equal after reordering their
\* keyword arguments get the same cache key.
C9_KeyOrderIndependent ==
    (keyA # <<>> /\ keyB # <<>> /\ SameCall(callA, callB)) => keyA = keyB

\* Both keys derived for two calls that write the same kwargs in another order.
C9_Witness ==
    /\ keyA # <<>>
    /\ keyB # <<>>
    /\ SameCall(callA, callB)
    /\ callA.kwargs # callB.kwargs
    /\ keyA = keyB

\* ------------------------------------------------------------------ C1
\* The most recent set on k, when no delete(k) followed it.
HasSet(k) == lastSet[k] # <<>>
TheSet(k) == lastSet[k][1]
PositiveTTL(k) == HasSet(k) /\ TheSet(k).ttl # NoTTL /\ TheSet(k).ttl[1] > 0
Deadline(k) == TheSet(k).at + TheSet(k).ttl[1]

\* C1 as stated: after set(k, v, t) with t > 0, a get/exists at the instant of
\* the set returns v/true, and a get/exists once t seconds have elapsed
\* (now >= set instant + t) returns absent/false, with no delete(k) called.
C1_ExpiresOnceTTLElapsed ==
    \A k \in Keys :
        (PositiveTTL(k) /\ ret.key = k) =>
            /\ (ret.op = "get" /\ now = TheSet(k).at) => ret.val = TheSet(k).v
            /\ (ret.op = "exists" /\ now = TheSet(k).at) => ret.found
            /\ (ret.op = "get" /\ now >= Deadline(k)) => ret.val = None
            /\ (ret.op = "exists" /\ now >= Deadline(k)) => ~ret.found

\* C1 amended: the entry is absent once MORE than t seconds have elapsed
\* (now > set instant + t); at exactly set instant + t it is still readable.
C1_ExpiresAfterTTL ==
    \A k \in Keys :
        (PositiveTTL(k) /\ ret.key = k) =>
            /\ (ret.op = "get" /\ now = TheSet(k).at) => ret.val = TheSet(k).v
            /\ (ret.op = "exists" /\ now = TheSet(k).at) => ret.found
            /\ (ret.op = "get" /\ now > Deadline(k)) => ret.val = None
            /\ (ret.op = "exists" /\ now > Deadline(k)) => ~ret.found
            /\ (ret.op = "get" /\ now <= Deadline(k)) => ret.val = TheSet(k).v
            /\ (ret.op = "exists" /\ now <= Deadline(k)) => ret.found

\* A get of a non-None value set with a positive TTL, after the TTL has passed.
C1_Witness ==
    /\ ret.op = "get"
    /\ ret.key \in Keys
    /\ PositiveTTL(ret.key)
    /\ TheSet(ret.key).v # None
    /\ now > Deadline(ret.key)
    /\ ret.val = None

\* ------------------------------------------------------------------ C2
\* C2 as stated: for every stored value, None included, exists(k) is true
\* iff get(k) at the same instant returns a value rather than absent (None).
C2_ExistsIffGet ==
    \A k \in Keys : MemoryCache_exists(k) <=> (MemoryCache_get_result(k) # None)

\* C2 amended: the equivalence holds for every key whose stored value is not
\* None; a stored None is reported by exists and returned as absent by get.
C2_ExistsIffGetNotNone ==
    \A k \in Keys :
        (k \in DOMAIN _cache /\ _cache[k] = None)
        \/ (MemoryCache_exists(k) <=> (MemoryCache_get_result(k) # None))

\* exists(k) has just answered false for an expired entry still in the dict.
C2_Witness ==
    /\ ret.op = "exists"
    /\ ret.key \in DOMAIN _cache
    /\ _cache[ret.key] # None
    /\ ~ret.found
    /\ MemoryCache_get_result(ret.key) = None

\* ------------------------------------------------------------------ C3
\* C3: the expiry of k is the one given by the most recent set on k: a set
\* without TTL leaves no expiry (get returns v at any later time, whatever
\* TTL k had before), and a set with a TTL on a key stored without expiry
\* records the expiry instant (set instant + t).
C3_TTLNotSticky ==
    \A k \in Keys :
        HasSet(k) =>
            /\ k \in DOMAIN _cache =>
                  /\ _cache[k] = TheSet(k).v
                  /\ Truthy(TheSet(k).ttl) =>
                        (k \in DOMAIN _expiry /\ _expiry[k] = Deadline(k))
                  /\ ~Truthy(TheSet(k).ttl) => k \notin DOMAIN _expiry
            /\ TheSet(k).ttl = NoTTL =>
                  /\ k \in DOMAIN _cache
                  /\ (ret.op = "get" /\ ret.key = k) => ret.val = TheSet(k).v
            /\ (Truthy(TheSet(k).ttl) /\ ret.op = "get" /\ ret.key = k) =>
                  ret.val = (IF now > Deadline(k) THEN None ELSE TheSet(k).v)

\* A key that had a TTL was set again without one and read after the old
\* expiry instant would have passed.
C3_Witness ==
    /\ ret.op = "get"
    /\ ret.key \in Keys
    /\ HasSet(ret.key)
    /\ TheSet(ret.key).ttl = NoTTL
    /\ TheSet(ret.key).over = "ttl"
    /\ TheSet(ret.key).v # None
    /\ now >= TheSet(ret.key).at + MaxTTL + 1
    /\ ret.val = TheSet(ret.key).v

\* ------------------------------------- MemoryCache under concurrent callers
\* Several threads call one MemoryCache.  A thread runs one dict operation or
\* one test at a time; another thread can run between any two of them.
Threads == 1..MaxThreads
ThreadValue(t) == IF t = 1 THEN "v1" ELSE "v2"
Funcs == {"get", "set", "delete", "exists"}

\* A caller between two calls, having ended n calls.
Idle(n) ==
    [pc |-> "idle", func |-> "", key |-> "", value |-> None, ttl |-> NoTTL,
     n |-> n, raised |-> <<>>]
\* The set call a caller is in.
SetCall(t) == <<t, callers[t].n>>
\* History: per key, val is the set call that wrote the value the key has, and
\* due the expiry that same call went on to leave: <<>> for none, <<"pending">>
\* until it has.
Gone(key) == [written EXCEPT ![key] = [val |-> <<>>, due |-> <<>>]]
Leaves(t, expiry) ==
    IF written[callers[t].key].val = SetCall(t)
    THEN [written EXCEPT ![callers[t].key].due = expiry]
    ELSE written

At(t, line) == callers[t].pc = line
Goto(t, line) == callers' = [callers EXCEPT ![t].pc = line]
Return(t) == callers' = [callers EXCEPT ![t].pc = "idle", ![t].n = @ + 1]
Raise(t, exc) == callers' = [callers EXCEPT ![t].pc = "raised", ![t].raised = <<exc>>]
Dicts == <<_cache, _expiry, written>>

\* A caller starts get, set, delete or exists on a key.
Call(t) ==
    /\ At(t, "idle")
    /\ callers[t].n < MaxThreadOps
    /\ \E func \in Funcs, key \in Keys, ttl \in TTLs :
          /\ func # "set" => ttl = NoTTL
          /\ callers' = [callers EXCEPT ![t] =
                [pc |-> func, func |-> func, key |-> key,
                 value |-> IF func = "set" THEN ThreadValue(t) ELSE None,
                 ttl |-> ttl, n |-> callers[t].n, raised |-> <<>>]]
    /\ UNCHANGED <<now, Dicts, notConc>>

\* get, line 96: key not in self._cache
get_in_cache(t) ==
    /\ At(t, "get")
    /\ Goto(t, IF callers[t].key \notin DOMAIN _cache THEN "get_97" ELSE "_is_expired")
    /\ UNCHANGED <<now, Dicts, notConc>>

\* exists, line 119: key in self._cache
exists_in_cache(t) ==
    /\ At(t, "exists")
    /\ IF callers[t].key \in DOMAIN _cache THEN Goto(t, "_is_expired") ELSE Return(t)
    /\ UNCHANGED <<now, Dicts, notConc>>

\* _is_expired, line 90: key not in self._expiry
is_expired_in_expiry(t) ==
    /\ At(t, "_is_expired")
    /\ IF callers[t].key \in DOMAIN _expiry THEN Goto(t, "_is_expired_92")
       ELSE IF callers[t].func = "get" THEN Goto(t, "get_102")
       ELSE Return(t)
    /\ UNCHANGED <<now, Dicts, notConc>>

\* _is_expired, line 92: datetime.now() > self._expiry[key]
is_expired_compare(t) ==
    /\ At(t, "_is_expired_92")
    /\ IF callers[t].key \notin DOMAIN _expiry THEN Raise(t, "KeyError")
       ELSE IF callers[t].func = "exists" THEN Return(t)
       ELSE Goto(t, IF now > _expiry[callers[t].key] THEN "get_97" ELSE "get_102")
    /\ UNCHANGED <<now, Dicts, notConc>>

\* get, line 97: if key in self._cache
get_evict_in_cache(t) ==
    /\ At(t, "get_97")
    /\ Goto(t, IF callers[t].key \in DOMAIN _cache THEN "get_98" ELSE "get_99")
    /\ UNCHANGED <<now, Dicts, notConc>>

\* get, line 98: del self._cache[key]
get_del_cache(t) ==
    /\ At(t, "get_98")
    /\ IF callers[t].key \in DOMAIN _cache
       THEN /\ _cache' = Remove(_cache, callers[t].key)
            /\ written' = Gone(callers[t].key)
            /\ Goto(t, "get_99")
       ELSE Raise(t, "KeyError") /\ UNCHANGED <<_cache, written>>
    /\ UNCHANGED <<now, _expiry, notConc>>

\* get, line 99: if key in self._expiry
get_evict_in_expiry(t) ==
    /\ At(t, "get_99")
    /\ IF callers[t].key \in DOMAIN _expiry THEN Goto(t, "get_100") ELSE Return(t)
    /\ UNCHANGED <<now, Dicts, notConc>>

\* get, lines 100-101: del self._expiry[key]; return None
get_del_expiry(t) ==
    /\ At(t, "get_100")
    /\ IF callers[t].key \in DOMAIN _expiry
       THEN /\ _expiry' = Remove(_expiry, callers[t].key)
            /\ Return(t)
       ELSE Raise(t, "KeyError") /\ UNCHANGED _expiry
    /\ UNCHANGED <<now, _cache, written, notConc>>

\* get, line 102: return self._cache[key]
get_return(t) ==
    /\ At(t, "get_102")
    /\ IF callers[t].key \in DOMAIN _cache THEN Return(t) ELSE Raise(t, "KeyError")
    /\ UNCHANGED <<now, Dicts, notConc>>

\* set, lines 106-107: self._cache[key] = value; if ttl
set_store(t) ==
    /\ At(t, "set")
    /\ _cache' = Put(_cache, callers[t].key, callers[t].value)
    /\ written' = [written EXCEPT ![callers[t].key] =
                       [val |-> SetCall(t), due |-> <<"pending">>]]
    /\ Goto(t, IF Truthy(callers[t].ttl) THEN "set_108" ELSE "set_109")
    /\ UNCHANGED <<now, _expiry, notConc>>

\* set, line 108: self._expiry[key] = datetime.now() + timedelta(seconds=ttl)
set_expiry(t) ==
    /\ At(t, "set_108")
    /\ _expiry' = Put(_expiry, callers[t].key, now + callers[t].ttl[1])
    /\ written' = Leaves(t, <<now + callers[t].ttl[1]>>)
    /\ Return(t)
    /\ UNCHANGED <<now, _cache, notConc>>

\* set, line 109: elif key in self._expiry
set_in_expiry(t) ==
    /\ At(t, "set_109")
    /\ IF callers[t].key \in DOMAIN _expiry
       THEN Goto(t, "set_110") /\ UNCHANGED written
       ELSE Return(t) /\ written' = Leaves(t, <<>>)
    /\ UNCHANGED <<now, _cache, _expiry, notConc>>

\* set, line 110: del self._expiry[key]
set_del_expiry(t) ==
    /\ At(t, "set_110")
    /\ IF callers[t].key \in DOMAIN _expiry
       THEN /\ _expiry' = Remove(_expiry, callers[t].key)
            /\ written' = Leaves(t, <<>>)
            /\ Return(t)
       ELSE Raise(t, "KeyError") /\ UNCHANGED <<_expiry, written>>
    /\ UNCHANGED <<now, _cache, notConc>>

\* delete, line 114: self._cache.pop(key, None)
delete_pop_cache(t) ==
    /\ At(t, "delete")
    /\ _cache' = Remove(_cache, callers[t].key)
    /\ written' = Gone(callers[t].key)
    /\ Goto(t, "delete_115")
    /\ UNCHANGED <<now, _expiry, notConc>>

\* delete, line 115: self._expiry.pop(key, None)
delete_pop_expiry(t) ==
    /\ At(t, "delete_115")
    /\ _expiry' = Remove(_expiry, callers[t].key)
    /\ Return(t)
    /\ UNCHANGED <<now, _cache, written, notConc>>

\* The clock advances while callers are at work.
ConcTick ==
    /\ now < MaxTime
    /\ now' = now + 1
    /\ UNCHANGED <<callers, Dicts, notConc>>

\* MemoryCache(), shared by the callers.
ConcInit ==
    /\ now = 0
    /\ _cache = EmptyDict
    /\ _expiry = EmptyDict
    /\ lastSet = [k \in Keys |-> <<>>]
    /\ ret = Observed("init", "", None, FALSE)
    /\ callers = [t \in Threads |-> Idle(0)]
    /\ written = [k \in Keys |-> [val |-> <<>>, due |-> <<>>]]

ThreadStep(t) ==
    \/ Call(t)
    \/ get_in_cache(t) \/ get_evict_in_cache(t) \/ get_del_cache(t)
    \/ get_evict_in_expiry(t) \/ get_del_expiry(t) \/ get_return(t)
    \/ is_expired_in_expiry(t) \/ is_expired_compare(t)
    \/ exists_in_cache(t)
    \/ set_store(t) \/ set_expiry(t) \/ set_in_expiry(t) \/ set_del_expiry(t)
    \/ delete_pop_cache(t) \/ delete_pop_expiry(t)

InitConc == ConcInit /\ KeyOff /\ AdapterOff /\ ScrapeOff /\ MemoOff
NextConc == (\E t \in Threads : ThreadStep(t)) \/ ConcTick
SpecConc == InitConc /\ [][NextConc]_vars

\* ----------------------------------------------------------------- C10
Quiescent == \A t \in Threads : callers[t].pc \in {"idle", "raised"}
\* The expiry an entry has: <<>> for none.
ExpiryOf(key) == IF key \in DOMAIN _expiry THEN <<_expiry[key]>> ELSE <<>>

\* C10: whatever the interleaving, no operation of a caller has raised, and
\* when no operation is in progress every entry present has the expiry that
\* the set call its value is from left.
C10_ConcurrentSafe ==
    /\ \A t \in Threads : callers[t].raised = <<>>
    /\ Quiescent => \A key \in DOMAIN _cache : ExpiryOf(key) = written[key].due

\* ------------------------------------- TwitterScraper: several callers
\* scrape() called on one TwitterScraper from several threads.  Each call has
\* its own frame (where it stands, its local user_id, what it returned or
\* raised); the instance, the client and the Redis server are shared.
Frame(at, id, n, result, exc) ==
    [pc |-> at, user_id |-> id, n |-> n, result |-> result, exc |-> exc]
Fetching == {"user_id_cache", "get_user", "tweets"}
Moves(t, at, id) ==
    callers' = [callers EXCEPT ![t].pc = at, ![t].user_id = id]
Finishes(t, result, exc) ==
    callers' = [callers EXCEPT ![t].pc = IF exc = <<>> THEN "Completed" ELSE "Raised",
                               ![t].result = result, ![t].exc = exc]
notCallers ==
    <<memVars, keyVars, raw_source, _methods, client_calls, outcome, listed,
      memoVars, written, redis_client, redis_up, pc, user_id, scrapes,
      scrape_result, fault>>

\* scrape(), lines 17-19 and 25-29: nothing is tested before the fetch starts.
scrape_by(t) ==
    /\ callers[t].pc \notin Fetching
    /\ callers[t].n < MaxThreadOps
    /\ callers' = [callers EXCEPT ![t] =
                      Frame("user_id_cache", None, callers[t].n + 1, <<>>, <<>>)]
    /\ UNCHANGED <<redis_db, api_calls, notCallers>>

\* _get_user_id_cached, lines 40-45
user_id_lookup_by(t) ==
    /\ callers[t].pc = "user_id_cache"
    /\ IF redis_client = None THEN Moves(t, "get_user", None)
       ELSE IF ~redis_up THEN Finishes(t, <<>>, <<"RedisError">>)
       ELSE IF TruthyStr(redis_get(UserIdKey)) THEN Moves(t, "tweets", redis_get(UserIdKey))
       ELSE Moves(t, "get_user", None)
    /\ UNCHANGED <<redis_db, api_calls, notCallers>>

\* _get_user_id_cached, lines 47-57
user_id_fetch_by(t) ==
    /\ callers[t].pc = "get_user"
    /\ IF "get_user" \notin DOMAIN raw_source
       THEN Finishes(t, <<>>, <<"AttributeError">>) /\ UNCHANGED <<redis_db, api_calls>>
       ELSE /\ api_calls' = [api_calls EXCEPT !["get_user"] = @ + 1]
            /\ \E did \in GetUserOutcomes :
                 CASE did = "raises" ->
                        Finishes(t, <<>>, <<"UpstreamError">>) /\ UNCHANGED redis_db
                   [] did = "not_response" ->
                        Finishes(t, <<>>, <<"AssertionError">>) /\ UNCHANGED redis_db
                   [] did = "no_data" ->
                        Finishes(t, <<>>, <<"TypeError">>) /\ UNCHANGED redis_db
                   [] did = "user" ->
                        IF redis_client = None
                        THEN Moves(t, "tweets", "id-1") /\ UNCHANGED redis_db
                        ELSE IF ~redis_up
                        THEN Finishes(t, <<>>, <<"RedisError">>) /\ UNCHANGED redis_db
                        ELSE /\ redis_db' = redis_setex(UserIdKey, UserIdTTL, "id-1")
                             /\ Moves(t, "tweets", "id-1")
    /\ UNCHANGED notCallers

\* _get_tweets_cached and the return of scrape()
tweets_fetch_by(t) ==
    /\ callers[t].pc = "tweets"
    /\ IF "get_users_tweets" \notin DOMAIN raw_source
       THEN Finishes(t, <<>>, <<"AttributeError">>) /\ UNCHANGED <<redis_db, api_calls>>
       ELSE /\ api_calls' = [api_calls EXCEPT !["get_users_tweets"] = @ + 1]
            /\ \E did \in GetTweetsOutcomes :
                 CASE did = "raises" ->
                        Finishes(t, <<>>, <<"UpstreamError">>) /\ UNCHANGED redis_db
                   [] did = "not_response" ->
                        Finishes(t, <<>>, <<"AssertionError">>) /\ UNCHANGED redis_db
                   [] did = "no_data" ->
                        Finishes(t, ScrapeResult(<<>>), <<>>) /\ UNCHANGED redis_db
                   [] did = "tweets" ->
                        IF redis_client = None
                        THEN Finishes(t, ScrapeResult(Tweets), <<>>) /\ UNCHANGED redis_db
                        ELSE IF ~redis_up
                        THEN Finishes(t, <<>>, <<"RedisError">>) /\ UNCHANGED redis_db
                        ELSE /\ redis_db' = redis_setex(TweetsKey(callers[t].user_id),
                                                         TweetsTTL, "2")
                             /\ Finishes(t, ScrapeResult(Tweets), <<>>)
    /\ UNCHANGED notCallers

\* One TwitterScraper, its callers idle.
CallersInit ==
    /\ raw_source \in Clients
    /\ _methods = _introspect_methods(raw_source)
    /\ client_calls = <<>>
    /\ outcome = <<>>
    /\ listed = <<>>
    /\ redis_client \in {None, "redis"}
    /\ redis_db = EmptyDict
    /\ redis_up \in BOOLEAN
    /\ pc = ""
    /\ user_id = None
    /\ api_calls = [n \in {"get_user", "get_users_tweets"} |-> 0]
    /\ scrapes = 0
    /\ scrape_result = <<>>
    /\ fault = <<>>
    /\ callers = [t \in Threads |-> Frame("Idle", None, 0, <<>>, <<>>)]
    /\ written = <<>>

InitCallers == CallersInit /\ MemOff /\ KeyOff /\ MemoOff
NextCallers ==
    \E t \in Threads :
        scrape_by(t) \/ user_id_lookup_by(t) \/ user_id_fetch_by(t) \/ tweets_fetch_by(t)
SpecCallers == InitCallers /\ [][NextCallers]_vars

\* ----------------------------------------------------------------- C16
\* C16: at no time are two scrape() calls on the instance fetching.
C16_OneFetchAtATime ==
    Cardinality({t \in Threads : callers[t].pc \in Fetching}) <= 1

\* ----------------------------------------------------------------- C18
\* What a dict holds for a key: <<>> when the key is absent.
Entry(d, k) == IF k \in DOMAIN d THEN <<d[k]>> ELSE <<>>
\* A step in which the caller runs get, set, delete or exists on key k.
OpOn(k) == ret'.op \in {"get", "set", "delete", "exists"} /\ ret'.key = k

\* C18: an operation on key k leaves the value and the expiry of every other
\* key as they were; a delete leaves k without value and expiry, and changes
\* nothing when k had neither; and while no set has followed the last delete
\* of k (or k was never set), get(k) returns None and exists(k) False.
C18_DeleteAndFrame ==
    [][\A k \in Keys :
          OpOn(k) =>
            /\ \A j \in Keys \ {k} :
                  /\ Entry(_cache', j) = Entry(_cache, j)
                  /\ Entry(_expiry', j) = Entry(_expiry, j)
            /\ ret'.op = "delete" =>
                  /\ k \notin DOMAIN _cache'
                  /\ k \notin DOMAIN _expiry'
                  /\ (k \notin DOMAIN _cache /\ k \notin DOMAIN _expiry) =>
                        (_cache' = _cache /\ _expiry' = _expiry)
            /\ (lastSet[k] = <<>> /\ ret'.op = "get") => ret'.val = None
            /\ (lastSet[k] = <<>> /\ ret'.op = "exists") => ~ret'.found]_vars

\* k1 has just been read as absent with no set since its delete, after time
\* has passed, while k2 holds a value with an expiry still ahead.
C18_Witness ==
    /\ ret.op = "get"
    /\ ret.key = "k1"
    /\ ret.val = None
    /\ lastSet["k1"] = <<>>
    /\ now > 0
    /\ "k2" \in DOMAIN _cache
    /\ _cache["k2"] = "v2"
    /\ "k2" \in DOMAIN _expiry
    /\ _expiry["k2"] >= now

\* ----------------------------------------------------------------- C19
\* C19: with operations run one at a time, every key with a recorded expiry
\* has a stored value; a get on a stored key whose expiry has passed removes
\* its value and its expiry; an exists removes nothing.
C19_ExpiryHasValue ==
    /\ [](DOMAIN _expiry \subseteq DOMAIN _cache)
    /\ [][\A k \in Keys :
             OpOn(k) =>
               /\ (ret'.op = "get" /\ k \in DOMAIN _cache /\ _is_expired(k)) =>
                     /\ k \notin DOMAIN _cache'
                     /\ k \notin DOMAIN _expiry'
                     /\ ret'.val = None
               /\ ret'.op = "exists" =>
                     /\ _cache' = _cache
                     /\ _expiry' = _expiry]_vars

\* A get has just answered None for k1, which was set with a TTL that has
\* run out and is now gone from both dicts, while k2, also past its expiry
\* and not read since, is still held with its expiry.
C19_Witness ==
    /\ ret.op = "get"
    /\ ret.key = "k1"
    /\ ret.val = None
    /\ lastSet["k1"] # <<>>
    /\ Truthy(lastSet["k1"][1].ttl)
    /\ lastSet["k1"][1].v # None
    /\ "k1" \notin DOMAIN _cache
    /\ "k1" \notin DOMAIN _expiry
    /\ "k2" \in DOMAIN _cache
    /\ "k2" \in DOMAIN _expiry
    /\ _is_expired("k2")

====
